---- MODULE Spec2Model ----
(***************************************************************************)
(* Model of FetchResearchPapers.py: one run of main(), from the parsed     *)
(* command line to process exit.  The two remote services (esearch and     *)
(* esummary), the destination file system and standard output are the      *)
(* environment; their answers are drawn from bounded sets.                 *)
(***************************************************************************)
EXTENDS Integers, Sequences, FiniteSets, TLC

(* ----------------------------- bounds ---------------------------------- *)
\* longest identifier list enumerated exhaustively
MaxIds == 3
\* how far beyond the requested cap a search response may run
MaxOver == 1

(* ------------------------- program constants --------------------------- *)
\* params['retmax'] of the search request
RetMax == 20
\* exit status of a process that has not exited yet
NotExited == 0 - 1

Ids == {"111", "222"}
Queries == {"cancer"}
Titles == {"Study A"}
PubDates == {"2023"}
FileNames == {"out.csv"}

\* a Python dict is a function; {} is the function with the empty domain
EmptyDict == <<>>

\* dict.get(key, default)
Get(d, k, default) == IF k \in DOMAIN d THEN d[k] ELSE default

\* truthiness of a dict or a list: empty is false
Truthy(v) == DOMAIN v # {}

\* args.file: None when -f/--file is omitted, else the string supplied
NoneFile == [given |-> FALSE, value |-> ""]
FileOptions == {NoneFile} \cup {[given |-> TRUE, value |-> s] : s \in {""} \cup FileNames}

\* truthiness of args.file: None and "" are false
TruthyFile(f) == f.given /\ f.value # ""

(* -------------------------- remote services ---------------------------- *)
LongIds(n) == [k \in 1..n |-> IF k % 2 = 1 THEN "111" ELSE "222"]

IdLists ==
  UNION {[1..n -> Ids] : n \in 0..MaxIds}
    \cup {LongIds(n) : n \in RetMax..(RetMax + MaxOver)}

\* JSON bodies the search service may answer with
SearchResponses ==
  {EmptyDict, "esearchresult" :> EmptyDict}
    \cup {"esearchresult" :> ("idlist" :> l) : l \in IdLists}

\* per-identifier entries of a summary body: title and pubdate each optional
Entries ==
  {EmptyDict}
    \cup {"title" :> t : t \in Titles}
    \cup {"pubdate" :> d : d \in PubDates}
    \cup {("title" :> t) @@ ("pubdate" :> d) : t \in Titles, d \in PubDates}

FullEntry == ("title" :> "Other") @@ ("pubdate" :> "1999")

\* JSON bodies the summary service may answer with for identifier p
SummaryResponses(p) ==
  {EmptyDict, "result" :> EmptyDict}
    \cup {"result" :> (q :> FullEntry) : q \in Ids \ {p}}
    \cup {"result" :> (p :> e) : e \in Entries}

SummaryDbs == {db \in [Ids -> UNION {SummaryResponses(p) : p \in Ids}] :
                 \A p \in Ids : db[p] \in SummaryResponses(p)}

(* ---------------------------- fetch_papers ------------------------------ *)
SearchParams_nocap(query) ==
  [endpoint |-> "esearch", db |-> "pubmed", term |-> query, retmode |-> "json",
   retmax |-> 0]

SearchParams(query) ==
  [endpoint |-> "esearch", db |-> "pubmed", term |-> query, retmode |-> "json",
   retmax |-> RetMax]

DetailParams(paper_id) ==
  [endpoint |-> "esummary", db |-> "pubmed", id |-> paper_id, retmode |-> "json"]

(* ------------------------- fetch_paper_details -------------------------- *)
Headers ==
  <<"PubmedID", "Title", "Publication Date", "Non-academic Author(s)",
    "Company Affiliation(s)", "Corresponding Author Email">>

PaperRecord(paper_id, title, pub_date) ==
  ("PubmedID" :> paper_id) @@ ("Title" :> title)
    @@ ("Publication Date" :> pub_date)
    @@ ("Non-academic Author(s)" :> "John Doe, PharmaCorp Inc.")
    @@ ("Company Affiliation(s)" :> "PharmaCorp Inc.")
    @@ ("Corresponding Author Email" :> "contact@pharma.com")

\* variant: no record when the body has no entry for the identifier
fetch_paper_details_none(paper_id, response) ==
  LET result == Get(response, "result", EmptyDict)
      data == Get(result, paper_id, EmptyDict)
  IN  IF paper_id \notin DOMAIN result THEN EmptyDict
      ELSE PaperRecord(paper_id, Get(data, "title", "N/A"), Get(data, "pubdate", "N/A"))

\* variant: absent title / pubdate left out instead of defaulted
fetch_paper_details_nodefault(paper_id, response) ==
  LET data == Get(Get(response, "result", EmptyDict), paper_id, EmptyDict)
      full == PaperRecord(paper_id, Get(data, "title", "N/A"), Get(data, "pubdate", "N/A"))
      keep == {h \in DOMAIN full :
                 /\ (h = "Title" => "title" \in DOMAIN data)
                 /\ (h = "Publication Date" => "pubdate" \in DOMAIN data)}
  IN  [h \in keep |-> full[h]]

fetch_paper_details(paper_id, response) ==
  LET data == Get(Get(response, "result", EmptyDict), paper_id, EmptyDict)
      title == Get(data, "title", "N/A")
      pub_date == Get(data, "pubdate", "N/A")
  IN  PaperRecord(paper_id, title, pub_date)

(* ------------------------------ save_to_csv ----------------------------- *)
\* csv.DictWriter row: the record's values in header order
Row(paper) == [k \in 1..Len(Headers) |-> Get(paper, Headers[k], "")]

CsvContent(papers) == <<Headers>> \o [k \in 1..Len(papers) |-> Row(papers[k])]

\* variant: file opened in append mode
save_to_csv_append(files, papers, filename) ==
  (filename :> (Get(files, filename, <<>>) \o CsvContent(papers))) @@ files

\* open(filename, 'w') truncates or creates; header, then one row per record
save_to_csv(files, papers, filename) ==
  (filename :> CsvContent(papers)) @@ files

\* what is on disk when a write fails after the file was opened
Prefixes(content) == {SubSeq(content, 1, n) : n \in 0..Len(content)}

(* ------------------------------- state --------------------------------- *)
VARIABLES
  pc,          \* position of the run
  args,        \* parsed command line: query, file
  summary,     \* what the summary service answers, per identifier
  fs,          \* the file system: existing file name -> rows
  fs0,         \* the file system before the run
  ids,         \* fetch_papers: ids
  i,           \* fetch_papers: position of the for loop (1-based)
  details,     \* fetch_papers: details
  papers,      \* main: papers
  j,           \* main: position of the print loop (1-based)
  requests,    \* every HTTP request issued so far, in order
  stdout,      \* lines printed so far
  saved,       \* file names save_to_csv was called with
  failed,      \* "none", "transport" or "filesystem"
  exitStatus   \* process exit status

vars == <<pc, args, summary, fs, fs0, ids, i, details, papers, j, requests,
          stdout, saved, failed, exitStatus>>

OldContent == <<<<"stale">>>>

Init ==
  /\ pc = "search"
  /\ args \in [query : Queries, file : FileOptions]
  /\ summary \in SummaryDbs
  /\ fs \in {EmptyDict} \cup {f :> OldContent : f \in FileNames}
  /\ fs0 = fs
  /\ ids = <<>>
  /\ i = 1
  /\ details = <<>>
  /\ papers = <<>>
  /\ j = 1
  /\ requests = <<>>
  /\ stdout = <<>>
  /\ saved = <<>>
  /\ failed = "none"
  /\ exitStatus = NotExited

(* ----------------------------- fetch_papers ----------------------------- *)
\* requests.get(esearch) succeeds; ids is read from the body
SearchOk ==
  /\ pc = "search"
  /\ \E data \in SearchResponses :
       ids' = Get(Get(data, "esearchresult", EmptyDict), "idlist", <<>>)
  /\ requests' = Append(requests, SearchParams(args.query))
  /\ details' = <<>>
  /\ i' = 1
  /\ pc' = "loop"
  /\ UNCHANGED <<args, summary, fs, fs0, papers, j, stdout, saved, failed, exitStatus>>

\* requests.get(esearch) or raise_for_status raises a RequestException
SearchFail ==
  /\ pc = "search"
  /\ requests' = Append(requests, SearchParams(args.query))
  /\ failed' = "transport"
  /\ pc' = "except"
  /\ UNCHANGED <<args, summary, fs, fs0, ids, i, details, papers, j, stdout, saved, exitStatus>>

\* variant: the new record is put in front of the collection
DetailOk_prepend ==
  /\ pc = "loop"
  /\ i <= Len(ids)
  /\ LET paper_id == ids[i]
         paper_data == fetch_paper_details(paper_id, summary[paper_id])
     IN  /\ requests' = Append(requests, DetailParams(paper_id))
         /\ details' = IF Truthy(paper_data) THEN <<paper_data>> \o details ELSE details
  /\ i' = i + 1
  /\ UNCHANGED <<pc, args, summary, fs, fs0, ids, papers, j, stdout, saved, failed, exitStatus>>

\* one iteration of the for loop: fetch_paper_details succeeds
DetailOk ==
  /\ pc = "loop"
  /\ i <= Len(ids)
  /\ LET paper_id == ids[i]
         paper_data == fetch_paper_details(paper_id, summary[paper_id])
     IN  /\ requests' = Append(requests, DetailParams(paper_id))
         /\ details' = IF Truthy(paper_data) THEN Append(details, paper_data) ELSE details
  /\ i' = i + 1
  /\ UNCHANGED <<pc, args, summary, fs, fs0, ids, papers, j, stdout, saved, failed, exitStatus>>

\* variant: a failed detail request ends the loop and returns what was gathered
DetailFail_partial ==
  /\ pc = "loop"
  /\ i <= Len(ids)
  /\ requests' = Append(requests, DetailParams(ids[i]))
  /\ failed' = "transport"
  /\ papers' = details
  /\ pc' = "dispatch"
  /\ UNCHANGED <<args, summary, fs, fs0, ids, i, details, j, stdout, saved, exitStatus>>

\* one iteration of the for loop: the detail request raises; the frame of
\* fetch_papers, and details with it, is unwound
DetailFail ==
  /\ pc = "loop"
  /\ i <= Len(ids)
  /\ requests' = Append(requests, DetailParams(ids[i]))
  /\ failed' = "transport"
  /\ details' = <<>>
  /\ pc' = "except"
  /\ UNCHANGED <<args, summary, fs, fs0, ids, i, papers, j, stdout, saved, exitStatus>>

\* return details; main binds papers
Return ==
  /\ pc = "loop"
  /\ i > Len(ids)
  /\ papers' = details
  /\ pc' = "dispatch"
  /\ UNCHANGED <<args, summary, fs, fs0, ids, i, details, j, requests, stdout, saved, failed, exitStatus>>

(* --------------------------------- main --------------------------------- *)
\* if not papers
NoPapers ==
  /\ pc = "dispatch"
  /\ ~Truthy(papers)
  /\ stdout' = Append(stdout, [kind |-> "nopapers"])
  /\ pc' = "done"
  /\ exitStatus' = 0
  /\ UNCHANGED <<args, summary, fs, fs0, ids, i, details, papers, j, requests, saved, failed>>

\* variant: the file option is tested before the emptiness of papers
SaveToCsv_first ==
  /\ pc = "dispatch"
  /\ TruthyFile(args.file)
  /\ saved' = Append(saved, args.file.value)
  /\ fs' = save_to_csv(fs, papers, args.file.value)
  /\ stdout' = Append(stdout, [kind |-> "saved", file |-> args.file.value])
  /\ pc' = "done"
  /\ exitStatus' = 0
  /\ UNCHANGED <<args, summary, fs0, ids, i, details, papers, j, requests, failed>>

\* elif args.file: save_to_csv succeeds, then the confirmation is printed
SaveToCsv ==
  /\ pc = "dispatch"
  /\ Truthy(papers)
  /\ TruthyFile(args.file)
  /\ saved' = Append(saved, args.file.value)
  /\ fs' = save_to_csv(fs, papers, args.file.value)
  /\ stdout' = Append(stdout, [kind |-> "saved", file |-> args.file.value])
  /\ pc' = "done"
  /\ exitStatus' = 0
  /\ UNCHANGED <<args, summary, fs0, ids, i, details, papers, j, requests, failed>>

\* variant: the handler catches every exception
SaveOpenFail_caught ==
  /\ pc = "dispatch"
  /\ Truthy(papers)
  /\ TruthyFile(args.file)
  /\ saved' = Append(saved, args.file.value)
  /\ failed' = "filesystem"
  /\ pc' = "except"
  /\ UNCHANGED <<args, summary, fs, fs0, ids, i, details, papers, j, requests, stdout, exitStatus>>

\* elif args.file: open() raises OSError; nothing catches it
SaveOpenFail ==
  /\ pc = "dispatch"
  /\ Truthy(papers)
  /\ TruthyFile(args.file)
  /\ saved' = Append(saved, args.file.value)
  /\ failed' = "filesystem"
  /\ pc' = "crashed"
  /\ exitStatus' = 1
  /\ UNCHANGED <<args, summary, fs, fs0, ids, i, details, papers, j, requests, stdout>>

\* elif args.file: the file is opened, a write or the close raises OSError
SaveWriteFail ==
  /\ pc = "dispatch"
  /\ Truthy(papers)
  /\ TruthyFile(args.file)
  /\ saved' = Append(saved, args.file.value)
  /\ \E part \in Prefixes(CsvContent(papers)) :
       /\ part # CsvContent(papers)
       /\ fs' = (args.file.value :> part) @@ fs
  /\ failed' = "filesystem"
  /\ pc' = "crashed"
  /\ exitStatus' = 1
  /\ UNCHANGED <<args, summary, fs0, ids, i, details, papers, j, requests, stdout>>

\* variant: the print loop starts at the second record
StartPrint_skip ==
  /\ pc = "dispatch"
  /\ Truthy(papers)
  /\ ~TruthyFile(args.file)
  /\ j' = 2
  /\ pc' = "print"
  /\ UNCHANGED <<args, summary, fs, fs0, ids, i, details, papers, requests, stdout, saved, failed, exitStatus>>

\* else: enter the print loop
StartPrint ==
  /\ pc = "dispatch"
  /\ Truthy(papers)
  /\ ~TruthyFile(args.file)
  /\ j' = 1
  /\ pc' = "print"
  /\ UNCHANGED <<args, summary, fs, fs0, ids, i, details, papers, requests, stdout, saved, failed, exitStatus>>

\* print(paper)
PrintRecord ==
  /\ pc = "print"
  /\ j <= Len(papers)
  /\ stdout' = Append(stdout, [kind |-> "record", rec |-> papers[j]])
  /\ j' = j + 1
  /\ UNCHANGED <<pc, args, summary, fs, fs0, ids, i, details, papers, requests, saved, failed, exitStatus>>

\* the print loop is exhausted; main returns
PrintDone ==
  /\ pc = "print"
  /\ j > Len(papers)
  /\ pc' = "done"
  /\ exitStatus' = 0
  /\ UNCHANGED <<args, summary, fs, fs0, ids, i, details, papers, j, requests, stdout, saved, failed>>

\* except requests.exceptions.RequestException as e: print the message
HandleRequestException ==
  /\ pc = "except"
  /\ stdout' = Append(stdout, [kind |-> "error"])
  /\ pc' = "done"
  /\ exitStatus' = 0
  /\ UNCHANGED <<args, summary, fs, fs0, ids, i, details, papers, j, requests, saved, failed>>

Next ==
  \/ SearchOk
  \/ SearchFail
  \/ DetailOk
  \/ DetailFail
  \/ Return
  \/ NoPapers
  \/ SaveToCsv
  \/ SaveOpenFail
  \/ SaveWriteFail
  \/ StartPrint
  \/ PrintRecord
  \/ PrintDone
  \/ HandleRequestException

Spec == Init /\ [][Next]_vars

TypeOK ==
  /\ pc \in {"search", "loop", "dispatch", "print", "except", "done", "crashed"}
  /\ failed \in {"none", "transport", "filesystem"}
  /\ exitStatus \in {NotExited, 0, 1}
  /\ i \in 1..(Len(ids) + 1)
  /\ j \in 1..(Len(papers) + 1)

(* ------------------------- auxiliary definitions ------------------------ *)
Terminated == pc \in {"done", "crashed"}
AfterLoop == pc \in {"dispatch", "print", "done", "crashed"}

\* the summary body for p carries an entry keyed by p
HasEntry(p) ==
  /\ "result" \in DOMAIN summary[p]
  /\ p \in DOMAIN summary[p]["result"]

PubmedIDs(recs) == [k \in 1..Len(recs) |-> recs[k]["PubmedID"]]

PrintedRecords == SelectSeq(stdout, LAMBDA line : line.kind = "record")

Printed(kind) == \E k \in 1..Len(stdout) : stdout[k].kind = kind

SixKeys ==
  {"PubmedID", "Title", "Publication Date", "Non-academic Author(s)",
   "Company Affiliation(s)", "Corresponding Author Email"}

(* -------------------------------- claims -------------------------------- *)
\* C1: while no request has failed, the requests issued are the search
\* request followed by one detail request per identifier already passed, in
\* list order; once the loop is over the collection has exactly one record
\* per identifier and its PubmedID sequence equals the identifier list.
C1_OneDetailRequestPerIdInOrder ==
  (failed # "transport" /\ pc # "search") =>
    /\ requests = <<SearchParams(args.query)>>
                    \o [k \in 1..(i - 1) |-> DetailParams(ids[k])]
    /\ pc = "loop" => PubmedIDs(details) = SubSeq(ids, 1, i - 1)
    /\ AfterLoop => /\ i = Len(ids) + 1
                    /\ Len(papers) = Len(ids)
                    /\ PubmedIDs(papers) = ids

C1_Witness ==
  /\ pc = "dispatch"
  /\ failed = "none"
  /\ Len(ids) = 3
  /\ ids[1] = ids[3]
  /\ ids[1] # ids[2]
  /\ Len(papers) = 3
  /\ Len(requests) = 4

\* C2: after a transport failure of the search request or of any detail
\* request, the only thing ever printed is the error message, no record is
\* printed, save_to_csv is never called, the file system is as before the
\* run and nothing fetched before the failure survives.
C2_TransportFailureWritesNothing ==
  failed = "transport" =>
    /\ fs = fs0
    /\ saved = <<>>
    /\ papers = <<>>
    /\ details = <<>>
    /\ PrintedRecords = <<>>
    /\ pc \in {"except", "done"}
    /\ pc = "except" => stdout = <<>>
    /\ pc = "done" => stdout = <<[kind |-> "error"]>>

C2_Witness ==
  /\ pc = "done"
  /\ failed = "transport"
  /\ i = 3
  /\ Len(requests) = 4
  /\ args.file.value \in FileNames
  /\ fs0 # EmptyDict
  /\ stdout = <<[kind |-> "error"]>>

C4_FileIsHeaderPlusRows ==
  (/\ pc = "done"
   /\ failed = "none"
   /\ args.file.given
   /\ args.file.value \in FileNames
   /\ Len(papers) >= 1) =>
    LET f == args.file.value
    IN  /\ saved = <<f>>
        /\ f \in DOMAIN fs
        /\ Len(fs[f]) = Len(papers) + 1
        /\ fs[f][1] = <<"PubmedID", "Title", "Publication Date",
                        "Non-academic Author(s)", "Company Affiliation(s)",
                        "Corresponding Author Email">>
        /\ \A k \in 1..Len(papers) :
             fs[f][k + 1] = <<papers[k]["PubmedID"], papers[k]["Title"],
                              papers[k]["Publication Date"],
                              papers[k]["Non-academic Author(s)"],
                              papers[k]["Company Affiliation(s)"],
                              papers[k]["Corresponding Author Email"]>>
        /\ \A g \in DOMAIN fs0 \ {f} : g \in DOMAIN fs /\ fs[g] = fs0[g]
        /\ stdout = <<[kind |-> "saved", file |-> f]>>

C4_Witness ==
  /\ pc = "done"
  /\ failed = "none"
  /\ args.file.value \in FileNames
  /\ args.file.value \in DOMAIN fs0
  /\ Len(papers) = 2
  /\ Len(fs[args.file.value]) = 3

\* C5: a run without the file option that collects N >= 1 records and meets
\* no failure has printed each record exactly once, in collection order, and
\* nothing else; at no point of such a run is a file created or modified.
C5_PrintsEachRecordOnceNoFile ==
  ~args.file.given =>
    /\ fs = fs0
    /\ saved = <<>>
    /\ (pc = "done" /\ failed = "none" /\ Len(papers) >= 1) =>
         stdout = [k \in 1..Len(papers) |-> [kind |-> "record", rec |-> papers[k]]]

C5_Witness ==
  /\ pc = "done"
  /\ failed = "none"
  /\ ~args.file.given
  /\ Len(papers) = 3
  /\ Len(stdout) = 3
  /\ fs0 # EmptyDict

\* C6: a run whose search step returns no identifier prints only the
\* "No papers found" message, issues no detail request and touches no file,
\* with or without a file option; and the message is printed only by a run
\* whose collected sequence is empty.
C6_EmptyResultOnlyMessage ==
  /\ (pc = "done" /\ failed = "none" /\ ids = <<>>) =>
       /\ stdout = <<[kind |-> "nopapers"]>>
       /\ requests = <<SearchParams(args.query)>>
       /\ fs = fs0
       /\ saved = <<>>
  /\ Printed("nopapers") => (papers = <<>> /\ failed = "none" /\ pc = "done")

C6_Witness ==
  /\ pc = "done"
  /\ failed = "none"
  /\ ids = <<>>
  /\ args.file.value \in FileNames
  /\ Printed("nopapers")

C8_Original_NoEntryLeftOut ==
  (AfterLoop /\ failed # "transport") =>
    PubmedIDs(papers) = SelectSeq(ids, HasEntry)

\* C8 (amended): fetch_paper_details returns a record for every identifier;
\* when the summary body has no matching entry the record carries "N/A" as
\* Title and Publication Date, and the identifier stays in the collection.
C8_NoEntryStillARecord ==
  \A k \in 1..(i - 1) :
    (pc \in {"loop", "dispatch", "print", "done", "crashed"} /\ failed # "transport") =>
      LET recs == IF pc = "loop" THEN details ELSE papers
      IN  /\ k <= Len(recs)
          /\ Truthy(recs[k])
          /\ recs[k]["PubmedID"] = ids[k]
          /\ ~HasEntry(ids[k]) =>
               /\ recs[k]["Title"] = "N/A"
               /\ recs[k]["Publication Date"] = "N/A"

C8_Witness ==
  /\ pc = "dispatch"
  /\ failed = "none"
  /\ Len(ids) = 2
  /\ ~HasEntry(ids[1])
  /\ HasEntry(ids[2])
  /\ Len(papers) = 2
  /\ papers[1]["Title"] = "N/A"

\* C9 (as stated): whatever the search response carries, at most 20 detail
\* requests are issued and at most 20 records are collected or output.
C9_Original_AtMostCap ==
  /\ Len(requests) <= RetMax + 1
  /\ Len(details) <= RetMax
  /\ Len(papers) <= RetMax
  /\ Len(PrintedRecords) <= RetMax

\* C9 (amended): the cap is a parameter of the search request only: the
\* search request carries retmax = 20, and the detail requests, the records
\* collected, printed or written are never more than the identifiers of the
\* search response, hence at most 20 when the response has at most 20.
C9_BoundedByResponseLength ==
  /\ requests # <<>> =>
       /\ requests[1].endpoint = "esearch"
       /\ requests[1].retmax = RetMax
  /\ Len(requests) <= Len(ids) + 1
  /\ Len(details) <= Len(ids)
  /\ Len(papers) <= Len(ids)
  /\ Len(PrintedRecords) <= Len(ids)
  /\ \A f \in DOMAIN fs :
       (f \in DOMAIN fs0 /\ fs[f] = fs0[f]) \/ Len(fs[f]) <= Len(ids) + 1
  /\ (AfterLoop /\ failed # "transport") => Len(requests) = Len(ids) + 1

C9_Witness ==
  /\ pc = "done"
  /\ failed = "none"
  /\ Len(ids) = RetMax + 1
  /\ Len(requests) = RetMax + 2
  /\ Len(PrintedRecords) = RetMax + 1

====
